---- MODULE Spec2Model ----
(***************************************************************************)
(* Model of WHChipReset (tt_tools_common/reset_common/wh_reset.py): the    *)
(* PCIe-level reset of a list of Wormhole chips.  reset_device_ioctl is    *)
(* the device-control gateway; full_lds_reset is the batch sequence.       *)
(* Python indexes from 0, the model from 1.  Durations are milliseconds.   *)
(***************************************************************************)
EXTENDS Integers, Sequences, FiniteSets, TLC

\* ---- bounds of the model ----
MaxN == 2          \* longest batch (len(pci_interfaces))
MaxIface == 1      \* interface ids are 0..MaxIface
MaxClk == 1        \* refclk counter values are 0..MaxClk

\* ---- class constants, wh_reset.py:23-31 ----
TENSTORRENT_IOCTL_MAGIC == 250
TENSTORRENT_IOCTL_RESET_DEVICE == (TENSTORRENT_IOCTL_MAGIC * 256) + 6
TENSTORRENT_RESET_DEVICE_RESTORE_STATE == 0
TENSTORRENT_RESET_DEVICE_RESET_PCIE_LINK == 1
A3_STATE_PROP_TIME == 30
POST_RESET_MSG_WAIT_TIME == 2000
MSG_TYPE_ARC_STATE3 == 163
MSG_TYPE_TRIGGER_RESET == 86
EXIT_CODE == 1
M3_ARG == 3

VARIABLES
    pci_interfaces,  \* argument: the batch, a sequence of interface ids
    reset_m3,        \* argument: board-level reset flag
    pc,              \* position of full_lds_reset
    gw,              \* position inside reset_device_ioctl ("idle" outside it)
    i,               \* index of the running for loop
    pci_chips,       \* list of bound chip handles
    refclk_list,     \* baseline samples
    current_refclk,  \* sample read at line 90
    fail,            \* local flag
    open_fds,        \* number of device-node descriptors currently open
    ioctl_ret,       \* value returned by the last reset_device_ioctl
    reset_device_buf, \* the request/response buffer of the last control call
    err,             \* exception propagating out of full_lds_reset
    report,          \* failure lines printed at line 92
    exits,           \* exit codes passed to sys.exit
    returned,        \* full_lds_reset has returned a value
    retval,          \* the value it returned
    trace            \* history: every external operation, in order

vars == <<pci_interfaces, reset_m3, pc, gw, i, pci_chips, refclk_list,
          current_refclk, fail, open_fds, ioctl_ret,
                   reset_device_buf, reset_device_buf, err,
          report, exits, returned, retval, trace>>

Interfaces == 0..MaxIface
\* resultCode values the driver may write: 0 is success
ResultCodes == {0, 1}
Clk == 0..MaxClk
N == Len(pci_interfaces)

\* sequences over S of length at most n
RECURSIVE SeqsUpTo(_, _)
SeqsUpTo(S, n) ==
    IF n = 0 THEN {<<>>}
    ELSE LET shorter == SeqsUpTo(S, n - 1)
         IN  shorter \cup {Append(s, x) : s \in {t \in shorter : Len(t) = n - 1}, x \in S}

\* a batch names every interface once
NoRepeat(s) == \A a, b \in DOMAIN s : s[a] = s[b] => a = b

\* one external operation: op on the idx-th element of the batch
Ev(op, idx, iface, x, args, wait) ==
    [op |-> op, idx |-> idx, iface |-> iface, x |-> x, args |-> args, wait |-> wait]

\* an operation on a bound chip handle
ChipEv(op, chip, x, args, wait) ==
    Ev(op, chip.idx, chip.pci_interface, x, args, wait)

\* variant: the second loop keeps using the first chip
ZipChip_first(chips, k) == chips[1]

\* line 86: the chip and the interface that enumerate(zip(...)) yields at k
ZipChip(chips, k) == chips[k]
ZipInterface(interfaces, k) == interfaces[k]

\* line 86: zip stops at the shorter of its two arguments
ZipLen(chips, interfaces) ==
    IF Len(chips) < Len(interfaces) THEN Len(chips) ELSE Len(interfaces)

\* PciChip(pci_interface=interface): the handle bound to the idx-th interface
PciChip(idx, interface) == [idx |-> idx, pci_interface |-> interface]

\* variant: both loops pass RESET_PCIE_LINK
GatewayFlags_sameFlag(p) == TENSTORRENT_RESET_DEVICE_RESET_PCIE_LINK

\* the flags argument of the reset_device_ioctl call made from position p
GatewayFlags(p) ==
    IF p = "isolate" THEN TENSTORRENT_RESET_DEVICE_RESET_PCIE_LINK
    ELSE TENSTORRENT_RESET_DEVICE_RESTORE_STATE

\* struct.calcsize of a format of "I" fields: four bytes each (lines 39-44)
U32_BYTES == 4
CalcSize(nfields) == nfields * U32_BYTES
IN_FIELDS == 2
OUT_FIELDS == 2

\* lines 45-47: struct.pack("IIII", output_size_bytes, flags, 0, 0), one
\* element of the sequence per u32 field
ResetDeviceBuf(flags) == <<CalcSize(OUT_FIELDS), flags, 0, 0>>

\* the driver fills the output section of the buffer in place
IoctlFill(buf, result) ==
    [buf EXCEPT ![IN_FIELDS + 1] = buf[1], ![IN_FIELDS + 2] = result]

\* variant: the first field of the output section is taken for the result
IoctlReturn_firstField(buf) ==
    LET output_buf == SubSeq(buf, (CalcSize(IN_FIELDS) \div U32_BYTES) + 1, Len(buf))
    IN  output_buf[1] = 0

\* lines 52-55: output_buf = buf[input_size_bytes:]; _, result = unpack;
\* return result == 0
IoctlReturn(buf) ==
    LET output_buf == SubSeq(buf, (CalcSize(IN_FIELDS) \div U32_BYTES) + 1, Len(buf))
    IN  output_buf[2] = 0

\* variant: the board-level argument is always sent
TriggerArgs_always(m3) == <<M3_ARG>>

\* arguments of the trigger message, lines 79-82
TriggerArgs(m3) == IF m3 THEN <<M3_ARG>> ELSE <<>>

\* variant: an unchanged counter counts as a failure
ResetFailed_orEqual(before, after) == before <= after

\* the test of line 91
ResetFailed(before, after) == before < after

\* variant: the last handle is left out of the result
ReturnValue_dropLast(chips) == SubSeq(chips, 1, Len(chips) - 1)

\* the value of line 107
ReturnValue(chips) == chips

Init ==
    /\ pci_interfaces \in {s \in SeqsUpTo(Interfaces, MaxN) : NoRepeat(s)}
    /\ reset_m3 \in BOOLEAN
    /\ pc = "isolate"
    /\ gw = "idle"
    /\ i = 1
    /\ pci_chips = <<>>
    /\ refclk_list = <<>>
    /\ current_refclk = 0
    /\ fail = FALSE
    /\ open_fds = 0
    /\ ioctl_ret = FALSE
    /\ reset_device_buf = <<>>
    /\ err = "none"
    /\ report = <<>>
    /\ exits = <<>>
    /\ returned = FALSE
    /\ retval = <<>>
    /\ trace = <<>>

\* ---------------- reset_device_ioctl, lines 33-57 ----------------

\* the interface_id argument: the loop variable of line 64 or of line 86
GatewayInterface ==
    IF pc = "isolate" THEN pci_interfaces[i] ELSE ZipInterface(pci_interfaces, i)

\* the length of the loop that makes the call: line 64 or line 86
GatewayLoopLen ==
    IF pc = "isolate" THEN Len(pci_interfaces) ELSE ZipLen(pci_chips, pci_interfaces)

\* variant: a failed open is retried
GwOpen_retry ==
    /\ pc \in {"isolate", "restore"}
    /\ gw = "idle"
    /\ i <= GatewayLoopLen
    /\ trace' = Append(trace, Ev("call", i, GatewayInterface, GatewayFlags(pc), <<>>, FALSE))
    /\ \/ /\ gw' = "opened"
          /\ open_fds' = open_fds + 1
          /\ UNCHANGED <<pc, err>>
       \/ /\ err' = "DeviceUnavailable"
          /\ UNCHANGED <<pc, gw, open_fds>>
    /\ UNCHANGED <<pci_interfaces, reset_m3, i, pci_chips, refclk_list,
                   current_refclk, fail, ioctl_ret,
                   reset_device_buf, report, exits,
                   returned, retval>>

\* line 35: os.open succeeds or raises
GwOpen ==
    /\ pc \in {"isolate", "restore"}
    /\ gw = "idle"
    /\ i <= GatewayLoopLen
    /\ trace' = Append(trace, Ev("call", i, GatewayInterface, GatewayFlags(pc), <<>>, FALSE))
    /\ \/ /\ gw' = "opened"
          /\ open_fds' = open_fds + 1
          /\ UNCHANGED <<pc, err>>
       \/ /\ err' = "DeviceUnavailable"
          /\ pc' = "aborted"
          /\ UNCHANGED <<gw, open_fds>>
    /\ UNCHANGED <<pci_interfaces, reset_m3, i, pci_chips, refclk_list,
                   current_refclk, fail, ioctl_ret,
                   reset_device_buf, report, exits,
                   returned, retval>>

\* variant: no finally clause, a raising control call leaves the descriptor open
GwIoctl_noFinally ==
    /\ gw = "opened"
    /\ trace' = Append(trace, Ev("ioctl", i, GatewayInterface,
                                 TENSTORRENT_IOCTL_RESET_DEVICE,
                                 ResetDeviceBuf(GatewayFlags(pc)), FALSE))
    /\ \/ \E result \in ResultCodes :
             /\ reset_device_buf' = IoctlFill(ResetDeviceBuf(GatewayFlags(pc)), result)
             /\ ioctl_ret' = IoctlReturn(reset_device_buf')
             /\ gw' = "returning"
             /\ UNCHANGED <<err, pc>>
       \/ /\ err' = "ControlCallFailed"
          /\ gw' = "idle"
          /\ pc' = "aborted"
          /\ ioctl_ret' = ioctl_ret
          /\ reset_device_buf' = ResetDeviceBuf(GatewayFlags(pc))
    /\ UNCHANGED <<pci_interfaces, reset_m3, i, pci_chips, refclk_list,
                   current_refclk, fail, open_fds, report, exits,
                   returned, retval>>

\* lines 45-55: the control call fills the buffer in place, or raises OSError
GwIoctl ==
    /\ gw = "opened"
    /\ trace' = Append(trace, Ev("ioctl", i, GatewayInterface,
                                 TENSTORRENT_IOCTL_RESET_DEVICE,
                                 ResetDeviceBuf(GatewayFlags(pc)), FALSE))
    /\ \/ \E result \in ResultCodes :
             /\ reset_device_buf' = IoctlFill(ResetDeviceBuf(GatewayFlags(pc)), result)
             /\ ioctl_ret' = IoctlReturn(reset_device_buf')
             /\ gw' = "returning"
             /\ err' = err
       \/ /\ err' = "ControlCallFailed"
          /\ gw' = "raising"
          /\ ioctl_ret' = ioctl_ret
          /\ reset_device_buf' = ResetDeviceBuf(GatewayFlags(pc))
    /\ UNCHANGED <<pci_interfaces, reset_m3, pc, i, pci_chips, refclk_list,
                   current_refclk, fail, open_fds, report, exits,
                   returned, retval>>

\* variant: a RESTORE_STATE call that returns False marks the batch as failed
GwClose_checked ==
    /\ gw \in {"returning", "raising"}
    /\ open_fds' = open_fds - 1
    /\ gw' = "idle"
    /\ IF gw = "raising"
       THEN /\ pc' = "aborted"
            /\ i' = i
            /\ fail' = fail
       ELSE IF pc = "isolate"
            THEN /\ pc' = pc
                 /\ i' = i + 1
                 /\ fail' = fail
            ELSE /\ pc' = "read_after"
                 /\ i' = i
                 /\ fail' = (fail \/ ~ioctl_ret)
    /\ UNCHANGED <<pci_interfaces, reset_m3, pci_chips, refclk_list,
                   current_refclk, ioctl_ret,
                   reset_device_buf, err, report, exits,
                   returned, retval, trace>>

\* lines 56-57: finally: os.close(dev_fd), then return or re-raise
GwClose ==
    /\ gw \in {"returning", "raising"}
    /\ open_fds' = open_fds - 1
    /\ gw' = "idle"
    /\ IF gw = "raising"
       THEN /\ pc' = "aborted"
            /\ i' = i
       ELSE IF pc = "isolate"
            THEN /\ pc' = pc
                 /\ i' = i + 1
            ELSE /\ pc' = "read_after"
                 /\ i' = i
    /\ UNCHANGED <<pci_interfaces, reset_m3, pci_chips, refclk_list,
                   current_refclk, fail, ioctl_ret,
                   reset_device_buf, err, report, exits,
                   returned, retval, trace>>

\* ---------------- full_lds_reset, lines 59-107 ----------------

\* line 64: the isolation loop is exhausted
IsolateDone ==
    /\ pc = "isolate"
    /\ gw = "idle"
    /\ i > Len(pci_interfaces)
    /\ pc' = "bind"
    /\ i' = 1
    /\ UNCHANGED <<pci_interfaces, reset_m3, gw, pci_chips, refclk_list,
                   current_refclk, fail, open_fds, ioctl_ret,
                   reset_device_buf, err, report,
                   exits, returned, retval, trace>>

\* variant: a failed constructor ends the binding and the batch goes on with
\* the handles bound so far
BindChip_partial ==
    /\ pc = "bind"
    /\ i <= Len(pci_interfaces)
    /\ \/ /\ pci_chips' = Append(pci_chips, PciChip(i, pci_interfaces[i]))
          /\ trace' = Append(trace, Ev("bind", i, pci_interfaces[i], 0, <<>>, FALSE))
          /\ i' = i + 1
          /\ err' = err
       \/ /\ err' = "HandleBindFailed"
          /\ i' = Len(pci_interfaces) + 1
          /\ UNCHANGED <<pci_chips, trace>>
    /\ UNCHANGED <<pci_interfaces, reset_m3, pc, gw, refclk_list, current_refclk,
                   fail, open_fds, ioctl_ret,
                   reset_device_buf, report, exits, returned, retval>>

\* line 68: one element of the list comprehension; the constructor may raise
BindChip ==
    /\ pc = "bind"
    /\ i <= Len(pci_interfaces)
    /\ \/ /\ pci_chips' = Append(pci_chips, PciChip(i, pci_interfaces[i]))
          /\ trace' = Append(trace, Ev("bind", i, pci_interfaces[i], 0, <<>>, FALSE))
          /\ i' = i + 1
          /\ UNCHANGED <<pc, err>>
       \/ /\ err' = "HandleBindFailed"
          /\ pc' = "aborted"
          /\ UNCHANGED <<pci_chips, trace, i>>
    /\ UNCHANGED <<pci_interfaces, reset_m3, gw, refclk_list, current_refclk,
                   fail, open_fds, ioctl_ret,
                   reset_device_buf, report, exits, returned, retval>>

\* lines 68-72: the list is complete; enter the per-chip loop
BindDone ==
    /\ pc = "bind"
    /\ i > Len(pci_interfaces)
    /\ pc' = IF Len(pci_chips) = 0 THEN "bulk_sleep" ELSE "read_before"
    /\ i' = 1
    /\ UNCHANGED <<pci_interfaces, reset_m3, gw, pci_chips, refclk_list,
                   current_refclk, fail, open_fds, ioctl_ret,
                   reset_device_buf, err, report,
                   exits, returned, retval, trace>>

\* variant: a failed baseline read is swallowed and the run goes on to the
\* restore phase
ReadBefore_swallow ==
    /\ pc = "read_before"
    /\ \/ \E v \in Clk :
             /\ refclk_list' = Append(refclk_list, v)
             /\ trace' = Append(trace, ChipEv("refclk", pci_chips[i], v, <<>>, FALSE))
             /\ pc' = "a3_send"
             /\ err' = err
       \/ /\ err' = "RefclkReadFailed"
          /\ pc' = "bulk_sleep"
          /\ UNCHANGED <<refclk_list, trace>>
    /\ UNCHANGED <<pci_interfaces, reset_m3, gw, i, pci_chips, current_refclk,
                   fail, open_fds, ioctl_ret,
                   reset_device_buf, report, exits, returned, retval>>

\* line 74: refclk_list.append(read_refclk_counter(chip))
ReadBefore ==
    /\ pc = "read_before"
    /\ \/ \E v \in Clk :
             /\ refclk_list' = Append(refclk_list, v)
             /\ trace' = Append(trace, ChipEv("refclk", pci_chips[i], v, <<>>, FALSE))
             /\ pc' = "a3_send"
             /\ err' = err
       \/ /\ err' = "RefclkReadFailed"
          /\ pc' = "aborted"
          /\ UNCHANGED <<refclk_list, trace>>
    /\ UNCHANGED <<pci_interfaces, reset_m3, gw, i, pci_chips, current_refclk,
                   fail, open_fds, ioctl_ret,
                   reset_device_buf, report, exits, returned, retval>>

\* variant: the safe-state message is sent without waiting for the firmware
A3Send_noWait ==
    /\ pc = "a3_send"
    /\ trace' = Append(trace, ChipEv("msg", pci_chips[i], MSG_TYPE_ARC_STATE3, <<>>, FALSE))
    /\ pc' = "a3_sleep"
    /\ UNCHANGED <<pci_interfaces, reset_m3, gw, i, pci_chips, refclk_list,
                   current_refclk, fail, open_fds, ioctl_ret,
                   reset_device_buf, err, report,
                   exits, returned, retval>>

\* line 76: chip.arc_msg(MSG_TYPE_ARC_STATE3, wait_for_done=True) is sent
A3Send ==
    /\ pc = "a3_send"
    /\ trace' = Append(trace, ChipEv("msg", pci_chips[i], MSG_TYPE_ARC_STATE3, <<>>, TRUE))
    /\ pc' = "a3_wait"
    /\ UNCHANGED <<pci_interfaces, reset_m3, gw, i, pci_chips, refclk_list,
                   current_refclk, fail, open_fds, ioctl_ret,
                   reset_device_buf, err, report,
                   exits, returned, retval>>

\* variant: no settle wait after the acknowledgment
A3Ack_noSettle ==
    /\ pc = "a3_wait"
    /\ \/ /\ trace' = Append(trace, ChipEv("ack", pci_chips[i], MSG_TYPE_ARC_STATE3, <<>>, FALSE))
          /\ pc' = "trigger"
          /\ err' = err
       \/ /\ err' = "ArcMsgFailed"
          /\ pc' = "aborted"
          /\ trace' = trace
    /\ UNCHANGED <<pci_interfaces, reset_m3, gw, i, pci_chips, refclk_list,
                   current_refclk, fail, open_fds, ioctl_ret,
                   reset_device_buf, report, exits,
                   returned, retval>>

\* variant: the wait for the acknowledgment may time out and the run goes on
A3Ack_timeout ==
    /\ pc = "a3_wait"
    /\ \/ /\ trace' = Append(trace, ChipEv("ack", pci_chips[i], MSG_TYPE_ARC_STATE3, <<>>, FALSE))
          /\ pc' = "a3_sleep"
          /\ err' = err
       \/ /\ pc' = "a3_sleep"
          /\ UNCHANGED <<trace, err>>
       \/ /\ err' = "ArcMsgFailed"
          /\ pc' = "aborted"
          /\ trace' = trace
    /\ UNCHANGED <<pci_interfaces, reset_m3, gw, i, pci_chips, refclk_list,
                   current_refclk, fail, open_fds, ioctl_ret,
                   reset_device_buf, report, exits,
                   returned, retval>>

\* line 76: the firmware acknowledges, or the blocked call raises
A3Ack ==
    /\ pc = "a3_wait"
    /\ \/ /\ trace' = Append(trace, ChipEv("ack", pci_chips[i], MSG_TYPE_ARC_STATE3, <<>>, FALSE))
          /\ pc' = "a3_sleep"
          /\ err' = err
       \/ /\ err' = "ArcMsgFailed"
          /\ pc' = "aborted"
          /\ trace' = trace
    /\ UNCHANGED <<pci_interfaces, reset_m3, gw, i, pci_chips, refclk_list,
                   current_refclk, fail, open_fds, ioctl_ret,
                   reset_device_buf, report, exits,
                   returned, retval>>

\* line 77: time.sleep(A3_STATE_PROP_TIME)
A3Sleep ==
    /\ pc = "a3_sleep"
    /\ trace' = Append(trace, ChipEv("sleep", pci_chips[i], A3_STATE_PROP_TIME, <<>>, FALSE))
    /\ pc' = "trigger"
    /\ UNCHANGED <<pci_interfaces, reset_m3, gw, i, pci_chips, refclk_list,
                   current_refclk, fail, open_fds, ioctl_ret,
                   reset_device_buf, err, report,
                   exits, returned, retval>>

\* variant: only the first chip is sampled; later chips reuse its baseline
Trigger_oneBaseline ==
    /\ pc = "trigger"
    /\ \/ /\ trace' = Append(trace, ChipEv("msg", pci_chips[i], MSG_TYPE_TRIGGER_RESET,
                                           TriggerArgs(reset_m3), FALSE))
          /\ IF i < Len(pci_chips)
             THEN /\ pc' = "a3_send"
                  /\ i' = i + 1
                  /\ refclk_list' = Append(refclk_list, refclk_list[1])
             ELSE /\ pc' = "bulk_sleep"
                  /\ i' = i
                  /\ refclk_list' = refclk_list
          /\ err' = err
       \/ /\ err' = "ArcMsgFailed"
          /\ pc' = "aborted"
          /\ UNCHANGED <<trace, i, refclk_list>>
    /\ UNCHANGED <<pci_interfaces, reset_m3, gw, pci_chips,
                   current_refclk, fail, open_fds, ioctl_ret,
                   reset_device_buf, report, exits, returned, retval>>

\* variant: the bulk wait is inside the loop, once per chip
Trigger_sleepInLoop ==
    /\ pc = "trigger"
    /\ \/ /\ trace' = Append(Append(trace,
                                    ChipEv("msg", pci_chips[i], MSG_TYPE_TRIGGER_RESET,
                                           TriggerArgs(reset_m3), FALSE)),
                             Ev("sleep", 0, 0, POST_RESET_MSG_WAIT_TIME, <<>>, FALSE))
          /\ IF i < Len(pci_chips)
             THEN /\ pc' = "read_before"
                  /\ i' = i + 1
             ELSE /\ pc' = "restore"
                  /\ i' = 1
          /\ err' = err
       \/ /\ err' = "ArcMsgFailed"
          /\ pc' = "aborted"
          /\ UNCHANGED <<trace, i>>
    /\ UNCHANGED <<pci_interfaces, reset_m3, gw, pci_chips, refclk_list,
                   current_refclk, fail, open_fds, ioctl_ret,
                   reset_device_buf, report, exits, returned, retval>>

\* lines 79-82: the trigger message, not waited for; then the next chip
Trigger ==
    /\ pc = "trigger"
    /\ \/ /\ trace' = Append(trace, ChipEv("msg", pci_chips[i], MSG_TYPE_TRIGGER_RESET,
                                           TriggerArgs(reset_m3), FALSE))
          /\ IF i < Len(pci_chips)
             THEN /\ pc' = "read_before"
                  /\ i' = i + 1
             ELSE /\ pc' = "bulk_sleep"
                  /\ i' = i
          /\ err' = err
       \/ /\ err' = "ArcMsgFailed"
          /\ pc' = "aborted"
          /\ UNCHANGED <<trace, i>>
    /\ UNCHANGED <<pci_interfaces, reset_m3, gw, pci_chips, refclk_list,
                   current_refclk, fail, open_fds, ioctl_ret,
                   reset_device_buf, report, exits,
                   returned, retval>>

\* variant: the first chip is resampled before its link is restored
BulkSleep_readFirst ==
    /\ pc = "bulk_sleep"
    /\ trace' = Append(trace, Ev("sleep", 0, 0, POST_RESET_MSG_WAIT_TIME, <<>>, FALSE))
    /\ pc' = IF Len(pci_chips) = 0 THEN "restore" ELSE "read_after"
    /\ i' = 1
    /\ UNCHANGED <<pci_interfaces, reset_m3, gw, pci_chips, refclk_list,
                   current_refclk, fail, open_fds, ioctl_ret,
                   reset_device_buf, err, report, exits, returned, retval>>

\* line 84: time.sleep(POST_RESET_MSG_WAIT_TIME)
BulkSleep ==
    /\ pc = "bulk_sleep"
    /\ trace' = Append(trace, Ev("sleep", 0, 0, POST_RESET_MSG_WAIT_TIME, <<>>, FALSE))
    /\ pc' = "restore"
    /\ i' = 1
    /\ UNCHANGED <<pci_interfaces, reset_m3, gw, pci_chips, refclk_list,
                   current_refclk, fail, open_fds, ioctl_ret,
                   reset_device_buf, err, report,
                   exits, returned, retval>>

\* line 90: current_refclk = read_refclk_counter(chip)
ReadAfter ==
    /\ pc = "read_after"
    /\ \/ \E v \in Clk :
             /\ current_refclk' = v
             /\ trace' = Append(trace, ChipEv("refclk", ZipChip(pci_chips, i), v, <<>>, FALSE))
             /\ pc' = "compare"
             /\ err' = err
       \/ /\ err' = "RefclkReadFailed"
          /\ pc' = "aborted"
          /\ UNCHANGED <<current_refclk, trace>>
    /\ UNCHANGED <<pci_interfaces, reset_m3, gw, i, pci_chips, refclk_list,
                   fail, open_fds, ioctl_ret,
                   reset_device_buf, report, exits, returned, retval>>

\* variant: the first failing interface ends the run
Compare_exitFirst ==
    /\ pc = "compare"
    /\ IF ResetFailed(refclk_list[i], current_refclk)
       THEN /\ report' = Append(report, <<ZipInterface(pci_interfaces, i),
                                       refclk_list[i], current_refclk>>)
            /\ fail' = TRUE
            /\ exits' = Append(exits, EXIT_CODE)
            /\ pc' = "exited"
            /\ i' = i
       ELSE /\ UNCHANGED <<report, fail, exits>>
            /\ pc' = "restore"
            /\ i' = i + 1
    /\ UNCHANGED <<pci_interfaces, reset_m3, gw, pci_chips, refclk_list,
                   current_refclk, open_fds, ioctl_ret,
                   reset_device_buf, err,
                   returned, retval, trace>>

\* variant: every interface is compared with the baseline of the first chip
Compare_firstBaseline ==
    /\ pc = "compare"
    /\ IF ResetFailed(refclk_list[1], current_refclk)
       THEN /\ report' = Append(report, <<ZipInterface(pci_interfaces, i),
                                       refclk_list[1], current_refclk>>)
            /\ fail' = TRUE
       ELSE UNCHANGED <<report, fail>>
    /\ pc' = "restore"
    /\ i' = i + 1
    /\ UNCHANGED <<pci_interfaces, reset_m3, gw, pci_chips, refclk_list,
                   current_refclk, open_fds, ioctl_ret,
                   reset_device_buf, err, exits,
                   returned, retval, trace>>

\* lines 91-97: compare, print the failure line, set fail; then the next chip
Compare ==
    /\ pc = "compare"
    /\ IF ResetFailed(refclk_list[i], current_refclk)
       THEN /\ report' = Append(report, <<ZipInterface(pci_interfaces, i),
                                       refclk_list[i], current_refclk>>)
            /\ fail' = TRUE
       ELSE UNCHANGED <<report, fail>>
    /\ pc' = "restore"
    /\ i' = i + 1
    /\ UNCHANGED <<pci_interfaces, reset_m3, gw, pci_chips, refclk_list,
                   current_refclk, open_fds, ioctl_ret,
                   reset_device_buf, err, exits,
                   returned, retval, trace>>

\* lines 99-107: the restore loop is exhausted; sys.exit(1) or return pci_chips
Finish ==
    /\ pc = "restore"
    /\ gw = "idle"
    /\ i > ZipLen(pci_chips, pci_interfaces)
    /\ IF fail
       THEN /\ exits' = Append(exits, EXIT_CODE)
            /\ pc' = "exited"
            /\ UNCHANGED <<returned, retval>>
       ELSE /\ returned' = TRUE
            /\ retval' = ReturnValue(pci_chips)
            /\ pc' = "returned"
            /\ exits' = exits
    /\ UNCHANGED <<pci_interfaces, reset_m3, gw, i, pci_chips, refclk_list,
                   current_refclk, fail, open_fds, ioctl_ret,
                   reset_device_buf, err, report,
                   trace>>

Next ==
    \/ GwOpen
    \/ GwIoctl
    \/ GwClose
    \/ IsolateDone
    \/ BindChip
    \/ BindDone
    \/ ReadBefore
    \/ A3Send
    \/ A3Ack
    \/ A3Sleep
    \/ Trigger
    \/ BulkSleep
    \/ ReadAfter
    \/ Compare
    \/ Finish

Spec == Init /\ [][Next]_vars

\* ---------------- reading the history ----------------

Verdict == pc \in {"returned", "exited"}
Success == pc = "returned"
Failed == pc = "exited"

IsCall(e) == e.op = "call"
Calls == SelectSeq(trace, IsCall)
At(op) == {p \in DOMAIN trace : trace[p].op = op}
CallsWith(flag) == {p \in At("call") : trace[p].x = flag}
ReadsOf(k) == {p \in At("refclk") : trace[p].idx = k}
MsgsOf(k, code) == {p \in At("msg") : trace[p].idx = k /\ trace[p].x = code}
AcksOf(k) == {p \in At("ack") : trace[p].idx = k}
SettlesOf(k) == {p \in At("sleep") : trace[p].idx = k /\ trace[p].x = A3_STATE_PROP_TIME}
BulkWaits == {p \in At("sleep") : trace[p].idx = 0 /\ trace[p].x = POST_RESET_MSG_WAIT_TIME}
Min(S) == CHOOSE m \in S : \A n \in S : m <= n
Max(S) == CHOOSE m \in S : \A n \in S : n <= m
\* the sample pair of chip k in a run that reached a verdict
BeforeOf(k) == trace[Min(ReadsOf(k))].x
AfterOf(k) == trace[Max(ReadsOf(k))].x

\* ---------------- claims ----------------

\* C1: a batch of N interfaces that reaches a verdict has made exactly 2N
\* gateway calls: N with RESET_PCIE_LINK, one per interface in input order,
\* all before any handle is bound, then N with RESTORE_STATE, one per
\* interface in the same order, all after the bulk settle wait.
C1_GatewayCalls ==
    Verdict =>
        /\ Len(Calls) = 2 * N
        /\ \A k \in 1..N :
              /\ Calls[k].x = TENSTORRENT_RESET_DEVICE_RESET_PCIE_LINK
              /\ Calls[k].idx = k
              /\ Calls[k].iface = pci_interfaces[k]
              /\ Calls[N + k].x = TENSTORRENT_RESET_DEVICE_RESTORE_STATE
              /\ Calls[N + k].idx = k
              /\ Calls[N + k].iface = pci_interfaces[k]
        /\ \A p \in CallsWith(TENSTORRENT_RESET_DEVICE_RESET_PCIE_LINK) :
              \A q \in At("bind") : p < q
        /\ Cardinality(BulkWaits) = 1
        /\ \A p \in CallsWith(TENSTORRENT_RESET_DEVICE_RESTORE_STATE) :
              \A q \in BulkWaits : q < p

\* a two-interface batch with distinct interfaces has reached a verdict
C1_Witness ==
    /\ Verdict
    /\ N = 2
    /\ pci_interfaces[1] # pci_interfaces[2]
    /\ Len(Calls) = 4

\* C2: in a batch that reaches a verdict the refclk counter of every chip is
\* read exactly twice (2N reads in all): the first read is the baseline and
\* precedes the chip's reset-trigger message, the second follows it; in no
\* state has a chip been read more than twice.
C2_RefclkBracket ==
    /\ \A k \in 1..N : Cardinality(ReadsOf(k)) <= 2
    /\ Verdict =>
          /\ Cardinality(At("refclk")) = 2 * N
          /\ \A k \in 1..N :
                /\ Cardinality(ReadsOf(k)) = 2
                /\ Cardinality(MsgsOf(k, MSG_TYPE_TRIGGER_RESET)) = 1
                /\ \A t \in MsgsOf(k, MSG_TYPE_TRIGGER_RESET) :
                      Min(ReadsOf(k)) < t /\ t < Max(ReadsOf(k))
                /\ BeforeOf(k) = refclk_list[k]

\* both chips of a two-chip batch have been sampled twice
C2_Witness ==
    /\ Verdict
    /\ N = 2
    /\ Cardinality(ReadsOf(1)) = 2
    /\ Cardinality(ReadsOf(2)) = 2

\* C3: if after[i] > before[i] for some i the verdict is Failed and the
\* process exits with a non-zero status; if after[i] <= before[i] for all i
\* the verdict is Success and no exit is signalled.
C3_Verdict ==
    Verdict =>
        /\ (\E k \in 1..N : AfterOf(k) > BeforeOf(k)) =>
              (Failed /\ exits = <<EXIT_CODE>> /\ EXIT_CODE # 0)
        /\ (\A k \in 1..N : AfterOf(k) <= BeforeOf(k)) =>
              (Success /\ exits = <<>>)

\* a chip whose counter did not move, next to one whose counter fell: Success
C3_Witness ==
    /\ Success
    /\ N = 2
    /\ AfterOf(1) = BeforeOf(1)
    /\ AfterOf(2) < BeforeOf(2)

\* the handles of the whole batch, one per input interface in input order
AllHandles == [k \in 1..N |-> PciChip(k, pci_interfaces[k])]

\* C4 as stated: on either verdict full_lds_reset returns the full ordered
\* list of the N bound chip handles.
C4_ReturnsOnEitherVerdict ==
    Verdict => (returned /\ retval = AllHandles)

\* C4 as amended: on Success full_lds_reset returns the full ordered list of
\* the N bound handles; on Failed it returns nothing, sys.exit(1) is raised
\* instead, the list of bound handles being complete and unfiltered then too.
C4_ReturnOnSuccessOnly ==
    /\ Success => (returned /\ retval = AllHandles /\ exits = <<>>)
    /\ Failed => (~returned /\ exits = <<EXIT_CODE>> /\ pci_chips = AllHandles)
    /\ returned => Success

\* batch of two, the first chip passes and the second fails
C4_Witness ==
    /\ Failed
    /\ N = 2
    /\ AfterOf(1) < BeforeOf(1)
    /\ AfterOf(2) > BeforeOf(2)
    /\ Len(pci_chips) = 2

\* C5: once the construction of a chip handle has failed for any interface,
\* the batch is aborted and no microcontroller message and no refclk read has
\* been issued to any chip; nothing is issued while the handle list is
\* incomplete.
C5_BindFailureAborts ==
    /\ err = "HandleBindFailed" => pc = "aborted"
    /\ (err = "HandleBindFailed" \/ Len(pci_chips) < N) =>
          (At("msg") = {} /\ At("refclk") = {} /\ At("ack") = {})

\* the second constructor of a two-interface batch failed after the first succeeded
C5_Witness ==
    /\ err = "HandleBindFailed"
    /\ N = 2
    /\ Len(pci_chips) = 1

\* C6: every reset-trigger message of a batch carries the argument 3 if
\* reset_m3 is true and no argument if it is false.
C6_UniformTriggerArg ==
    \A p \in At("msg") :
        trace[p].x = MSG_TYPE_TRIGGER_RESET =>
            /\ ~trace[p].wait
            /\ reset_m3 => trace[p].args = <<M3_ARG>>
            /\ ~reset_m3 => trace[p].args = <<>>

\* both triggers of a two-chip chip-level batch have been sent
C6_Witness ==
    /\ N = 2
    /\ ~reset_m3
    /\ MsgsOf(1, MSG_TYPE_TRIGGER_RESET) # {}
    /\ MsgsOf(2, MSG_TYPE_TRIGGER_RESET) # {}

\* the failure lines a complete verification prints: one per failing
\* interface, in input order, with its before and after values
RECURSIVE ExpectedReport(_)
ExpectedReport(k) ==
    IF k = 0 THEN <<>>
    ELSE IF AfterOf(k) > BeforeOf(k)
         THEN Append(ExpectedReport(k - 1), <<pci_interfaces[k], BeforeOf(k), AfterOf(k)>>)
         ELSE ExpectedReport(k - 1)

\* C7: a failing interface does not end the verification: whenever an exit
\* has been signalled, it was signalled once, every one of the N interfaces
\* had been restored, resampled and compared, and the report lists every
\* failing interface with its before and after values.
C7_AggregatedFailure ==
    /\ Len(exits) <= 1
    /\ fail => report # <<>>
    /\ exits # <<>> =>
          /\ Failed
          /\ Cardinality(CallsWith(TENSTORRENT_RESET_DEVICE_RESTORE_STATE)) = N
          /\ \A k \in 1..N : Cardinality(ReadsOf(k)) = 2
          /\ report = ExpectedReport(N)

\* the first interface failed, the second was still compared and passed
C7_Witness ==
    /\ Failed
    /\ N = 2
    /\ AfterOf(1) > BeforeOf(1)
    /\ AfterOf(2) <= BeforeOf(2)
    /\ Len(report) = 1

\* C8: at most one device descriptor is open at any time, and none is open
\* outside reset_device_ioctl, whether the call returned or raised.
C8_ScopedDescriptor ==
    /\ open_fds <= 1
    /\ gw = "idle" => open_fds = 0
    /\ open_fds = 1 => pc \in {"isolate", "restore"}

\* the control call raised and the descriptor is closed
C8_Witness ==
    /\ err = "ControlCallFailed"
    /\ pc = "aborted"
    /\ open_fds = 0

OSErrors == {"DeviceUnavailable", "ControlCallFailed"}

\* C9: an OS-level failure of a gateway call ends the batch: the error
\* propagates (no verdict, no return value, no exit), and after it no
\* gateway call, message or refclk read is issued.
C9_OSErrorTerminal ==
    /\ [](err \in OSErrors =>
             /\ pc = "aborted" \/ gw = "raising"
             /\ ~returned
             /\ exits = <<>>)
    /\ [][(err \in OSErrors) => (trace' = trace /\ err' = err)]_vars

\* the restore call of the second interface was rejected
C9_Witness ==
    /\ err = "ControlCallFailed"
    /\ pc = "aborted"
    /\ N = 2
    /\ Cardinality(CallsWith(TENSTORRENT_RESET_DEVICE_RESTORE_STATE)) = 2

\* chip k has been sent the safe-state message, has acknowledged it and its
\* settle wait has elapsed, all before position t of the history
SettledBefore(k, t) ==
    \E m \in MsgsOf(k, MSG_TYPE_ARC_STATE3) : \E a \in AcksOf(k) : \E w \in SettlesOf(k) :
        m < a /\ a < w /\ w < t

\* C10 as stated: no reset-trigger message is sent to any chip until every
\* chip of the batch has been sent the safe-state message, has acknowledged
\* it and its settle wait has elapsed.
C10_BatchWideSafeState ==
    \A k \in 1..N : \A t \in MsgsOf(k, MSG_TYPE_TRIGGER_RESET) :
        \A j \in 1..N : SettledBefore(j, t)

\* C10 as amended: the safe-state and trigger steps run chip by chip: the
\* trigger message of chip k is sent after chips 1..k have each been sent
\* the safe-state message, acknowledged it and had their settle wait, and
\* before the safe-state message of any later chip.
C10_PerChipSafeState ==
    \A k \in 1..N : \A t \in MsgsOf(k, MSG_TYPE_TRIGGER_RESET) :
        /\ \A j \in 1..k : SettledBefore(j, t)
        /\ \A j \in (k + 1)..N : \A m \in MsgsOf(j, MSG_TYPE_ARC_STATE3) : t < m

\* both chips of a two-chip batch have been triggered
C10_Witness ==
    /\ N = 2
    /\ MsgsOf(1, MSG_TYPE_TRIGGER_RESET) # {}
    /\ MsgsOf(2, MSG_TYPE_TRIGGER_RESET) # {}
    /\ MsgsOf(2, MSG_TYPE_ARC_STATE3) # {}

\* every message sent to a chip: safe-state and reset-trigger alike
MsgsTo(k) == {p \in At("msg") : trace[p].idx = k}

\* C11 as stated: the baseline of every chip of the batch has been read
\* before any safe-state or reset-trigger message is sent to any chip.
C11_BatchWideBaseline ==
    \A m \in At("msg") : \A k \in 1..N : \E r \in ReadsOf(k) : r < m

\* C11 as amended: the baseline is read chip by chip inside the loop that
\* also sends the messages: before[k] is read before any message is sent to
\* chip k or to a later chip, and after the reset-trigger message of every
\* earlier chip.
C11_PerChipBaseline ==
    \A k \in 1..N :
        /\ \A j \in k..N : \A m \in MsgsTo(j) : \E r \in ReadsOf(k) : r < m
        /\ ReadsOf(k) # {} =>
              \A j \in 1..(k - 1) :
                  \E t \in MsgsOf(j, MSG_TYPE_TRIGGER_RESET) : t < Min(ReadsOf(k))

\* the second chip of a batch has been sampled and sent its safe-state message
C11_Witness ==
    /\ N = 2
    /\ ReadsOf(2) # {}
    /\ MsgsOf(2, MSG_TYPE_ARC_STATE3) # {}
    /\ MsgsOf(1, MSG_TYPE_TRIGGER_RESET) # {}

\* the post-reset reads: the refclk reads made after the bulk settle wait
AfterReads == {p \in At("refclk") : \E b \in BulkWaits : b < p}
\* the interfaces (by position in the batch) whose RESTORE_STATE call was
\* issued before position p of the history
RestoredBefore(p) ==
    {trace[c].idx : c \in {q \in CallsWith(TENSTORRENT_RESET_DEVICE_RESTORE_STATE) : q < p}}

\* C12 as stated: the RESTORE_STATE call has been issued for every interface
\* of the batch before the post-reset sample of any chip is read.
C12_BatchWideRestore ==
    \A r \in AfterReads : RestoredBefore(r) = 1..N

\* C12 as amended: restore and resample run interface by interface in one
\* loop: when after[k] is read, the RESTORE_STATE call has been issued for
\* interfaces 1..k and for no later interface.
C12_PerInterfaceRestore ==
    \A r \in AfterReads : RestoredBefore(r) = 1..trace[r].idx

\* the first chip of a two-chip batch has been resampled, the second link
\* has been restored later
C12_Witness ==
    /\ N = 2
    /\ \E r \in AfterReads : trace[r].idx = 1
    /\ \E c \in CallsWith(TENSTORRENT_RESET_DEVICE_RESTORE_STATE) : trace[c].idx = 2

\* C13: the reset-trigger message of chip k is sent only after chip k's
\* blocking safe-state message (0xA3) was acknowledged and the settle wait
\* that follows the acknowledgment completed; each chip is sent at most one
\* safe-state and one trigger message, exactly one of each in a batch that
\* reaches a verdict; the trigger is sent without waiting and is never
\* acknowledged.
C13_TriggerAfterSafeState ==
    \A k \in 1..N :
        /\ Cardinality(MsgsOf(k, MSG_TYPE_ARC_STATE3)) <= 1
        /\ Cardinality(MsgsOf(k, MSG_TYPE_TRIGGER_RESET)) <= 1
        /\ MsgsTo(k) = MsgsOf(k, MSG_TYPE_ARC_STATE3) \cup MsgsOf(k, MSG_TYPE_TRIGGER_RESET)
        /\ \A m \in MsgsOf(k, MSG_TYPE_ARC_STATE3) : trace[m].wait
        /\ \A a \in AcksOf(k) : trace[a].x = MSG_TYPE_ARC_STATE3
        /\ Cardinality(AcksOf(k)) <= 1
        /\ \A t \in MsgsOf(k, MSG_TYPE_TRIGGER_RESET) :
              /\ ~trace[t].wait
              /\ t > 3
              /\ (t - 1) \in SettlesOf(k)
              /\ (t - 2) \in AcksOf(k)
              /\ (t - 3) \in MsgsOf(k, MSG_TYPE_ARC_STATE3)
        /\ Verdict =>
              /\ Cardinality(MsgsOf(k, MSG_TYPE_ARC_STATE3)) = 1
              /\ Cardinality(MsgsOf(k, MSG_TYPE_TRIGGER_RESET)) = 1

\* a chip has been triggered after its acknowledgment and settle wait
C13_Witness ==
    /\ N = 2
    /\ Verdict
    /\ \E t \in MsgsOf(2, MSG_TYPE_TRIGGER_RESET) : (t - 2) \in AcksOf(2)

\* C14: the bulk settle wait happens at most once, exactly once in a batch
\* that reaches a verdict, whatever N is: it directly follows the
\* reset-trigger message of the last chip, every chip has been triggered
\* before it, no message is sent after it, and every RESTORE_STATE call
\* comes after it.
C14_SingleBulkWait ==
    /\ Cardinality(BulkWaits) <= 1
    /\ Verdict => Cardinality(BulkWaits) = 1
    /\ CallsWith(TENSTORRENT_RESET_DEVICE_RESTORE_STATE) # {} => BulkWaits # {}
    /\ \A b \in BulkWaits :
          /\ \A k \in 1..N : \E t \in MsgsOf(k, MSG_TYPE_TRIGGER_RESET) : t < b
          /\ N > 0 => (b - 1) \in MsgsOf(N, MSG_TYPE_TRIGGER_RESET)
          /\ \A m \in At("msg") : m < b
          /\ \A c \in CallsWith(TENSTORRENT_RESET_DEVICE_RESTORE_STATE) : b < c
          /\ Cardinality({s \in At("sleep") : s < b}) = N

\* a two-chip batch has waited once and restored both links
C14_Witness ==
    /\ N = 2
    /\ Verdict
    /\ Cardinality(BulkWaits) = 1
    /\ Cardinality(CallsWith(TENSTORRENT_RESET_DEVICE_RESTORE_STATE)) = 2

\* the p-th external operation of a batch, given only the arguments of
\* full_lds_reset and, for a refclk read, the sample the chip delivered
ExpectedOp(p) ==
    LET kIso == (p + 1) \div 2
        kBind == p - 2 * N
        qLoop == p - 3 * N - 1
        kLoop == (qLoop \div 5) + 1
        qRest == p - 8 * N - 2
        kRest == (qRest \div 3) + 1
    IN  IF p <= 2 * N
        THEN IF p % 2 = 1
             THEN Ev("call", kIso, pci_interfaces[kIso],
                     TENSTORRENT_RESET_DEVICE_RESET_PCIE_LINK, <<>>, FALSE)
             ELSE Ev("ioctl", kIso, pci_interfaces[kIso], TENSTORRENT_IOCTL_RESET_DEVICE,
                     <<8, TENSTORRENT_RESET_DEVICE_RESET_PCIE_LINK, 0, 0>>, FALSE)
        ELSE IF p <= 3 * N
        THEN Ev("bind", kBind, pci_interfaces[kBind], 0, <<>>, FALSE)
        ELSE IF p <= 8 * N
        THEN CASE qLoop % 5 = 0 ->
                    Ev("refclk", kLoop, pci_interfaces[kLoop], trace[p].x, <<>>, FALSE)
               [] qLoop % 5 = 1 ->
                    Ev("msg", kLoop, pci_interfaces[kLoop], MSG_TYPE_ARC_STATE3, <<>>, TRUE)
               [] qLoop % 5 = 2 ->
                    Ev("ack", kLoop, pci_interfaces[kLoop], MSG_TYPE_ARC_STATE3, <<>>, FALSE)
               [] qLoop % 5 = 3 ->
                    Ev("sleep", kLoop, pci_interfaces[kLoop], A3_STATE_PROP_TIME, <<>>, FALSE)
               [] qLoop % 5 = 4 ->
                    Ev("msg", kLoop, pci_interfaces[kLoop], MSG_TYPE_TRIGGER_RESET,
                       IF reset_m3 THEN <<M3_ARG>> ELSE <<>>, FALSE)
        ELSE IF p = 8 * N + 1
        THEN Ev("sleep", 0, 0, POST_RESET_MSG_WAIT_TIME, <<>>, FALSE)
        ELSE CASE qRest % 3 = 0 ->
                    Ev("call", kRest, pci_interfaces[kRest],
                       TENSTORRENT_RESET_DEVICE_RESTORE_STATE, <<>>, FALSE)
               [] qRest % 3 = 1 ->
                    Ev("ioctl", kRest, pci_interfaces[kRest], TENSTORRENT_IOCTL_RESET_DEVICE,
                       <<8, TENSTORRENT_RESET_DEVICE_RESTORE_STATE, 0, 0>>, FALSE)
               [] qRest % 3 = 2 ->
                    Ev("refclk", kRest, pci_interfaces[kRest], trace[p].x, <<>>, FALSE)

Raised == {"DeviceUnavailable", "ControlCallFailed", "HandleBindFailed",
           "RefclkReadFailed", "ArcMsgFailed"}

\* C15: the boolean returned by a gateway call never influences the run.
\* Stated on one run: whatever resultCode values the control calls return,
\* the sequence of operations is the one fixed by the arguments and the
\* refclk samples alone, a run ends early only through a raised exception,
\* and verdict and exit status are fixed by the samples alone; two runs that
\* differ only in the resultCode values therefore agree on all of them.
C15_ResultCodeIgnored ==
    /\ Len(trace) <= 11 * N + 1
    /\ \A p \in DOMAIN trace : trace[p] = ExpectedOp(p)
    /\ (pc = "aborted" \/ gw = "raising") <=> err \in Raised
    /\ err \in Raised \cup {"none"}
    /\ Verdict =>
          /\ Len(trace) = 11 * N + 1
          /\ Failed <=> (\E k \in 1..N : AfterOf(k) > BeforeOf(k))
          /\ exits = (IF Failed THEN <<EXIT_CODE>> ELSE <<>>)
    /\ fail <=> report # <<>>

\* the last RESTORE_STATE call returned a non-zero resultCode and the batch
\* still succeeded
C15_Witness ==
    /\ Success
    /\ N = 2
    /\ reset_device_buf[4] # 0
    /\ ~ioctl_ret

\* every step of the program but the firmware's acknowledgment
ProgramStep ==
    \/ GwOpen
    \/ GwIoctl
    \/ GwClose
    \/ IsolateDone
    \/ BindChip
    \/ BindDone
    \/ ReadBefore
    \/ A3Send
    \/ A3Sleep
    \/ Trigger
    \/ BulkSleep
    \/ ReadAfter
    \/ Compare
    \/ Finish

\* the interpreter keeps running the sequential program; when, and whether,
\* the firmware acknowledges is left open
FairSpec == Spec /\ WF_vars(ProgramStep)

\* C16: the blocking safe-state message has no timeout.  While chip i has
\* not acknowledged, the batch has no verdict, no reset-trigger message has
\* been sent to chip i, no message to a later chip and no RESTORE_STATE
\* call; the wait is left only by the acknowledgment or by an exception, so a
\* chip that never acknowledges stalls the batch for ever.  Conversely, if
\* every safe-state message is eventually acknowledged and no operation
\* raises, the batch eventually reaches a verdict.
C16_NoTimeout ==
    /\ [](pc = "a3_wait" =>
             /\ ~Verdict
             /\ exits = <<>> /\ ~returned
             /\ AcksOf(i) = {}
             /\ MsgsOf(i, MSG_TYPE_TRIGGER_RESET) = {}
             /\ \A j \in (i + 1)..N : MsgsTo(j) = {}
             /\ CallsWith(TENSTORRENT_RESET_DEVICE_RESTORE_STATE) = {})
    /\ [][(pc = "a3_wait" /\ pc' # "a3_wait") =>
             \/ /\ pc' = "a3_sleep"
                /\ Len(trace') = Len(trace) + 1
                /\ trace'[Len(trace')].op = "ack"
                /\ trace'[Len(trace')].idx = i
             \/ /\ pc' = "aborted"
                /\ err' = "ArcMsgFailed"]_vars
    /\ [][(pc = "a3_wait" /\ pc' = "a3_wait") => UNCHANGED vars]_vars
    /\ ((pc = "a3_wait") ~> (pc # "a3_wait")) => <>(Verdict \/ err # "none")

\* the second chip of a batch is waited for, the first has been triggered
C16_Witness ==
    /\ pc = "a3_wait"
    /\ N = 2
    /\ i = 2
    /\ MsgsOf(1, MSG_TYPE_TRIGGER_RESET) # {}

\* C17: every invocation of reset_device_ioctl issues exactly one control
\* call, with opcode 0xFA06 and the request {8, flag, 0, 0} for the flag it
\* was given, and returns true if and only if the resultCode field, the
\* second u32 of the output section, is 0.
C17_ControlCall ==
    /\ TENSTORRENT_IOCTL_RESET_DEVICE = 64006
    /\ \A p \in At("ioctl") :
          /\ trace[p].x = 64006
          /\ p > 1
          /\ trace[p - 1].op = "call"
          /\ trace[p - 1].idx = trace[p].idx
          /\ trace[p - 1].iface = trace[p].iface
          /\ trace[p].args = <<8, trace[p - 1].x, 0, 0>>
    /\ \A c \in At("call") : c > 1 => trace[c - 1].op # "call"
    /\ Cardinality(At("call")) =
          Cardinality(At("ioctl")) +
             (IF gw = "opened" \/ err = "DeviceUnavailable" THEN 1 ELSE 0)
    /\ gw = "returning" =>
          /\ Len(reset_device_buf) = 4
          /\ reset_device_buf[1] = 8
          /\ reset_device_buf[2] = trace[Len(trace)].args[2]
          /\ ioctl_ret <=> (reset_device_buf[4] = 0)

\* a control call came back with resultCode 0 and the gateway returns True
C17_Witness ==
    /\ gw = "returning"
    /\ pc = "restore"
    /\ reset_device_buf[4] = 0
    /\ ioctl_ret

\* the exceptions that can be raised between the isolation phase and the
\* restore phase
MidErrors == {"HandleBindFailed", "RefclkReadFailed", "ArcMsgFailed"}

\* C18: when a handle-binding failure, a refclk read error or a message
\* error ends the batch before the bulk wait, the run is over with exactly N
\* RESET_PCIE_LINK calls and no RESTORE_STATE call, and none is issued
\* later: every link of the batch stays isolated.
C18_NoRestoreOnAbort ==
    /\ []((err \in MidErrors /\ BulkWaits = {}) =>
             /\ pc = "aborted"
             /\ ~Verdict
             /\ Cardinality(CallsWith(TENSTORRENT_RESET_DEVICE_RESET_PCIE_LINK)) = N
             /\ CallsWith(TENSTORRENT_RESET_DEVICE_RESTORE_STATE) = {})
    /\ [][(err \in MidErrors) => (trace' = trace /\ err' = err /\ pc' = pc)]_vars

\* the trigger message of the second chip raised after the first chip was reset
C18_Witness ==
    /\ err = "ArcMsgFailed"
    /\ pc = "aborted"
    /\ N = 2
    /\ MsgsOf(1, MSG_TYPE_TRIGGER_RESET) # {}
    /\ (Len(trace) - 1) \in AcksOf(2)
    /\ CallsWith(TENSTORRENT_RESET_DEVICE_RESTORE_STATE) = {}

\* the baseline reads: the refclk reads made before the bulk settle wait
BeforeReads == At("refclk") \ AfterReads
\* the interfaces (by position in the batch) whose RESET_PCIE_LINK call was
\* issued before position p of the history
IsolatedBefore(p) ==
    {trace[c].idx : c \in {q \in CallsWith(TENSTORRENT_RESET_DEVICE_RESET_PCIE_LINK) : q < p}}

\* C19: before[i] is read only after the RESET_PCIE_LINK call has been
\* issued for every interface of the batch; after[i] is read only after the
\* RESTORE_STATE call of interface i itself has returned; and interface i is
\* compared on exactly the pair (before[i], after[i]) read from the chip
\* bound to interface i.
C19_LinkBracketing ==
    /\ [](/\ \A r \in BeforeReads : IsolatedBefore(r) = 1..N
          /\ \A r \in AfterReads :
                /\ r > 2
                /\ trace[r - 1].op = "ioctl"
                /\ trace[r - 1].idx = trace[r].idx
                /\ trace[r - 1].args[2] = TENSTORRENT_RESET_DEVICE_RESTORE_STATE
                /\ trace[r - 2].op = "call"
                /\ trace[r - 2].idx = trace[r].idx
                /\ trace[r - 2].x = TENSTORRENT_RESET_DEVICE_RESTORE_STATE
          /\ \A r \in At("refclk") : trace[r].iface = pci_interfaces[trace[r].idx]
          /\ pc = "read_after" => (gw = "idle" /\ open_fds = 0)
          /\ pc = "compare" =>
                /\ Cardinality(ReadsOf(i)) = 2
                /\ Min(ReadsOf(i)) \in BeforeReads
                /\ Max(ReadsOf(i)) \in AfterReads
                /\ refclk_list[i] = BeforeOf(i)
                /\ current_refclk = AfterOf(i))
    /\ [][pc = "compare" =>
             /\ fail' = (fail \/ AfterOf(i) > BeforeOf(i))
             /\ report' = (IF AfterOf(i) > BeforeOf(i)
                           THEN Append(report, <<pci_interfaces[i], BeforeOf(i), AfterOf(i)>>)
                           ELSE report)]_vars

\* the second interface is being compared; its baseline differs from the first's
C19_Witness ==
    /\ pc = "compare"
    /\ N = 2
    /\ i = 2
    /\ BeforeOf(1) # BeforeOf(2)
    /\ pci_interfaces[1] # pci_interfaces[2]

TypeOK ==
    /\ pc \in {"isolate", "bind", "read_before", "a3_send", "a3_wait",
               "a3_sleep", "trigger", "bulk_sleep", "restore", "read_after",
               "compare", "exited", "returned", "aborted"}
    /\ gw \in {"idle", "opened", "returning", "raising"}
    /\ open_fds \in 0..1
    /\ Len(pci_chips) <= N
    /\ Len(refclk_list) <= N
====
